---- MODULE Spec2Model ----
(***************************************************************************)
(* Chordal-graph routines of networkx/algorithms/chordal/chordal.py:       *)
(* is_chordal, induced_nodes, chordal_graph_cliques and                    *)
(* chordal_graph_treewidth, with the maximum cardinality search they       *)
(* share.  A graph is a function from each node to its set of neighbours.  *)
(* The iteration order of a Python set or dict is not fixed by the code,   *)
(* so every place where the code takes "the first" element of such an      *)
(* iteration is a choice among all the elements that can come first.       *)
(* Every graph here is a simple undirected nx.Graph, so the tests of lines  *)
(* 71-76 (directed graph, multigraph) pass and are not steps of the model.  *)
(***************************************************************************)
EXTENDS Integers, FiniteSets, Sequences, TLC

\* Largest number of nodes of an input graph.
MaxNodes == 5
\* Largest finite treewidth_bound passed to induced_nodes.
MaxBound == 2
\* sys.maxint (32-bit build), the default treewidth_bound.
maxint == 2147483647
\* The doctest of induced_nodes: path_graph(10), s = 1, t = 9, bound 2.
PathLen == 10
PathS == 1
PathT == 9
PathBound == 2
\* Python's None; Python 2 orders it below every number.
None == -1

VARIABLES
    G,                 \* the caller's graph
    op,                \* the public function that was called
    pc,                \* the control point
    site,              \* who called _find_chordality_breaker
    H,                 \* the graph the detector runs on (G, or induced_nodes' H)
    s, t,              \* induced_nodes' s and t
    treewidth_bound,
    unnumbered, numbered, current_treewidth,
    triplet,           \* what _find_chordality_breaker returned
    I,                 \* induced_nodes' I
    passes,            \* detector passes of induced_nodes that returned a witness
    todo,              \* components chordal_graph_cliques has yet to visit
    cliques,           \* chordal_graph_cliques' cliques
    comp_cliques,      \* _connected_chordal_graph_cliques' cliques
    clique_wanna_be,
    result,            \* the value returned
    exc,               \* the exception raised, "" for none
    exc_line           \* the source line that raised it

vars == <<G, op, pc, site, H, s, t, treewidth_bound, unnumbered, numbered,
          current_treewidth, triplet, I, passes, todo, cliques,
          comp_cliques, clique_wanna_be, result, exc, exc_line>>

------------------------------------------------------------------------------
\* The graph interface (networkx.Graph), as far as the module uses it.

Nodes(X) == DOMAIN X

Pairs(S) == {e \in SUBSET S : Cardinality(e) = 2}

GraphOf(V, E) == [x \in V |-> {y \in V : {x, y} \in E}]

Graphs(n) == {GraphOf(1..n, E) : E \in SUBSET Pairs(1..n)}

add_edge(X, a, b) == [x \in Nodes(X) |->
                        IF x = a THEN X[x] \cup {b}
                        ELSE IF x = b THEN X[x] \cup {a}
                        ELSE X[x]]

\* G.subgraph(S).number_of_edges()
number_of_edges(X, S) ==
    Cardinality({e \in Pairs(S) : \E a \in e : (e \ {a}) \subseteq X[a]})

path_graph(n) == GraphOf(0..(n-1), {{i, i+1} : i \in 0..(n-2)})

RECURSIVE Reach(_, _)
Reach(X, S) ==
    LET T == S \cup UNION {X[x] : x \in S}
    IN  IF T = S THEN S ELSE Reach(X, T)

connected_components(X) == {Reach(X, {x}) : x \in Nodes(X)}

------------------------------------------------------------------------------
\* Helpers.

\* G.subgraph(S).number_of_selfloops()
number_of_selfloops(X, S) == Cardinality({x \in S : x \in X[x]})

\* A max that keeps its first argument once it is set.
PyMaxKeepsFirst(a, b) == IF a = None THEN b ELSE a

\* Python 2's max(a, b) of line 315, where a may be None.
PyMax(a, b) == IF a = None THEN b ELSE IF a > b THEN a ELSE b

\* A complete-graph test whose small case is off by one.
IsCompleteGraphOffByOne(X, S) ==
    LET n == Cardinality(S)
    IN  IF n <= 2 THEN TRUE
        ELSE number_of_edges(X, S) = (n * (n - 1)) \div 2

\* A complete-graph test that counts every edge twice.
IsCompleteGraphTwice(X, S) ==
    LET n == Cardinality(S)
    IN  IF n < 2 THEN TRUE
        ELSE number_of_edges(X, S) = n * (n - 1)

\* _is_complete_graph(G.subgraph(S)), lines 262-267; the self-loop test of
\* lines 260-261 is made by the steps that call it.
IsCompleteGraph(X, S) ==
    LET n == Cardinality(S)
    IN  IF n < 2 THEN TRUE
        ELSE number_of_edges(X, S) = (n * (n - 1)) \div 2

\* A missing-edge finder that does not look at the neighbours of u.
FindMissingEdgeAnyPair(X, S) ==
    {p \in S \X S : p[2] \in (S \ {p[1]})}

\* _find_missing_edge(G.subgraph(S)): the pairs (u, w) it can return, u any
\* node with a node of S missing from its neighbours, w any such node.
FindMissingEdge(X, S) ==
    {p \in S \X S : p[2] \in (S \ (X[p[1]] \cup {p[1]}))}

\* Line 285: the number of neighbours of x in wanna_connect.
Number(X, x, wanna_connect) == Cardinality(X[x] \cap wanna_connect)

\* A selection that takes any candidate.
MaxCardinalityNodeAny(X, choices, wanna_connect) == choices

\* _max_cardinality_node(X, choices, wanna_connect): the nodes it can return.
\* max_number starts as None, which Python 2 orders below every number, so
\* the first candidate is taken and replaced only by a strictly larger one:
\* the result is the candidate of largest number that the iteration over
\* choices meets first.

MaxCardinalityNode(X, choices, wanna_connect) ==
    {x \in choices : \A y \in choices :
        Number(X, y, wanna_connect) <= Number(X, x, wanna_connect)}

------------------------------------------------------------------------------
\* _find_chordality_breaker

\* Lines 301-306 with the start node given: the state the while loop starts in.
EnterBreaker(X, start, bound, who) ==
    /\ H' = X
    /\ treewidth_bound' = bound
    /\ site' = who
    /\ unnumbered' = Nodes(X) \ {start}
    /\ numbered' = {start}
    /\ current_treewidth' = None
    /\ triplet' = <<>>
    /\ pc' = "breaker_loop"

\* The three ways an operation ends.
Return(value) ==
    /\ pc' = "done" /\ result' = value /\ exc' = "" /\ exc_line' = 0

Raise(name, line) ==
    /\ pc' = "done" /\ result' = None /\ exc' = name /\ exc_line' = line

PublicFunctions == {"is_chordal", "induced_nodes", "chordal_graph_cliques",
                    "chordal_graph_treewidth"}

\* is_chordal(G), lines 78 and 301-306: the first statement of every public
\* function.  s is None, so the start node is random.choice(list(unnumbered)),
\* which raises IndexError on an empty list, whichever function was called;
\* otherwise op is set when the function called goes on after the test.
IsChordalCall ==
    /\ pc = "idle"
    /\ IF Nodes(G) = {}
       THEN /\ \E f \in PublicFunctions : op' = f
            /\ Raise("IndexError", 303)
            /\ UNCHANGED <<H, treewidth_bound, site, unnumbered, numbered,
                           current_treewidth, triplet>>
       ELSE /\ \E start \in Nodes(G) : EnterBreaker(G, start, maxint, "is_chordal")
            /\ UNCHANGED <<op, result, exc, exc_line>>
    /\ UNCHANGED <<G, s, t, I, passes, todo, cliques, comp_cliques, clique_wanna_be>>

\* One iteration of the while loop, lines 307-323.
BreakerStep ==
    /\ pc = "breaker_loop"
    /\ unnumbered # {}
    /\ \E v \in MaxCardinalityNode(H, unnumbered, numbered) :
         LET clique_wanna_be_v == H[v] \cap (numbered \cup {v})
         IN  /\ unnumbered' = unnumbered \ {v}
             /\ numbered' = numbered \cup {v}
             /\ IF number_of_selfloops(H, clique_wanna_be_v) > 0
                THEN /\ Raise("NetworkXError", 261)
                     /\ UNCHANGED <<current_treewidth, triplet>>
                ELSE IF IsCompleteGraph(H, clique_wanna_be_v)
                THEN /\ current_treewidth' =
                            PyMax(current_treewidth, Cardinality(clique_wanna_be_v))
                     /\ IF current_treewidth' > treewidth_bound
                        THEN Raise("NetworkXTreewidthBoundExceeded", 317)
                        ELSE UNCHANGED <<pc, result, exc, exc_line>>
                     /\ UNCHANGED triplet
                ELSE /\ \E p \in FindMissingEdge(H, clique_wanna_be_v) :
                            triplet' = <<p[1], v, p[2]>>
                     /\ pc' = "breaker_ret"
                     /\ UNCHANGED <<current_treewidth, result, exc, exc_line>>
    /\ UNCHANGED <<G, op, site, H, s, t, treewidth_bound, I, passes, todo, cliques,
                   comp_cliques, clique_wanna_be>>

\* The loop ends with every node numbered: line 324.
BreakerExit ==
    /\ pc = "breaker_loop"
    /\ unnumbered = {}
    /\ triplet' = <<>>
    /\ pc' = "breaker_ret"
    /\ UNCHANGED <<G, op, site, H, s, t, treewidth_bound, unnumbered, numbered,
                   current_treewidth, I, passes, todo, cliques, comp_cliques,
                   clique_wanna_be, result, exc, exc_line>>

------------------------------------------------------------------------------
\* is_chordal as the function called: lines 78-81.
IsChordalReturn ==
    /\ pc = "breaker_ret" /\ site = "is_chordal" /\ op = "none"
    /\ op' = "is_chordal"
    /\ Return(Len(triplet) = 0)
    /\ UNCHANGED <<G, site, H, s, t, treewidth_bound, unnumbered, numbered,
                   current_treewidth, triplet, I, passes, todo, cliques,
                   comp_cliques,
                   clique_wanna_be>>

------------------------------------------------------------------------------
\* induced_nodes

\* The finite bounds and the default.
Bounds == (0..MaxBound) \cup {maxint}

\* Lines 145-151 of induced_nodes(G, a, b, bound).
InducedNodesCall(a, b, bound) ==
    /\ pc = "breaker_ret" /\ site = "is_chordal" /\ op = "none"
    /\ op' = "induced_nodes"
    /\ s' = a /\ t' = b
    /\ IF Len(triplet) # 0
       THEN /\ Raise("NetworkXNonChordal", 146)
            /\ treewidth_bound' = bound
            /\ UNCHANGED <<H, site, unnumbered, numbered, current_treewidth,
                           triplet, I, passes>>
       ELSE /\ EnterBreaker(add_edge(G, a, b), a, bound, "induced_nodes")
            /\ I' = {}
            /\ passes' = 0
            /\ UNCHANGED <<result, exc, exc_line>>
    /\ UNCHANGED <<G, todo, cliques, comp_cliques, clique_wanna_be>>

\* induced_nodes called with two distinct nodes that are not adjacent in G.
\* The nodes are named so that s is 1 and t is 2: Init offers every graph
\* under every naming of its nodes, and no step reads a node's name.
InducedNodesBegin ==
    /\ {1, 2} \subseteq Nodes(G)
    /\ 2 \notin G[1]
    /\ \E bound \in Bounds : InducedNodesCall(1, 2, bound)

\* The call of the doctest, lines 139-140.
InducedNodesDoctest == InducedNodesCall(PathS, PathT, PathBound)

\* The nodes lines 162-165 can add: the first neighbour u of s in G with
\* exactly two neighbours in I, or none when there is no such neighbour.
SecondNode(X, a, J) ==
    LET found == {u \in X[a] : Cardinality(J \cap X[u]) = 2}
    IN  IF found = {} THEN {J} ELSE {J \cup {u} : u \in found}

\* A repair that adds the missing chords among the witness instead.
AddEdgesAmongTriplet(X, a, tr) ==
    [x \in Nodes(X) |-> IF x \in tr THEN X[x] \cup (tr \ {x}) ELSE X[x]]

\* A repair whose test n != s is inverted.
AddEdgesFromSInverted(X, a, tr) ==
    [x \in Nodes(X) |-> IF x = a /\ a \in tr THEN X[x] \cup {a} ELSE X[x]]

\* Lines 155-157: an edge from s (a) to every node of the triplet but s.
AddEdgesFromS(X, a, tr) ==
    [x \in Nodes(X) |->
        IF x = a THEN X[x] \cup (tr \ {a})
        ELSE IF x \in tr THEN X[x] \cup {a}
        ELSE X[x]]

\* Lines 152-166: the loop's test on what the detector returned, its body
\* with the next call of the detector, and the statements after the loop.
InducedNodesLoop ==
    /\ pc = "breaker_ret" /\ site = "induced_nodes"
    /\ IF Len(triplet) # 0
       THEN LET tr == {triplet[1], triplet[2], triplet[3]}
            IN  /\ I' = I \cup tr
                /\ passes' = passes + 1
                /\ EnterBreaker(AddEdgesFromS(H, s, tr), s, treewidth_bound,
                                "induced_nodes")
                /\ UNCHANGED <<result, exc, exc_line>>
       ELSE /\ IF I # {}
               THEN \E J \in SecondNode(G, s, I \cup {t}) : I' = J
               ELSE I' = I
            /\ Return("I,H")
            /\ UNCHANGED <<H, treewidth_bound, site, unnumbered, numbered,
                           current_treewidth, triplet, passes>>
    /\ UNCHANGED <<G, op, s, t, todo, cliques, comp_cliques, clique_wanna_be>>

------------------------------------------------------------------------------
\* chordal_graph_cliques and chordal_graph_treewidth

\* chordal_graph_treewidth, lines 250-254: its own chordality test, then the
\* call of chordal_graph_cliques, which runs is_chordal(G) once more.
TreewidthBegin ==
    /\ pc = "breaker_ret" /\ site = "is_chordal" /\ op = "none"
    /\ op' = "chordal_graph_treewidth"
    /\ IF Len(triplet) # 0
       THEN /\ Raise("NetworkXNonChordal", 251)
            /\ UNCHANGED <<H, treewidth_bound, site, unnumbered, numbered,
                           current_treewidth, triplet>>
       ELSE /\ \E start \in Nodes(G) : EnterBreaker(G, start, maxint, "is_chordal")
            /\ UNCHANGED <<result, exc, exc_line>>
    /\ UNCHANGED <<G, s, t, I, passes, todo, cliques, comp_cliques, clique_wanna_be>>

\* chordal_graph_cliques, lines 204-208, called directly or by
\* chordal_graph_treewidth.
CliquesBegin ==
    /\ pc = "breaker_ret" /\ site = "is_chordal"
    /\ op \in {"none", "chordal_graph_treewidth"}
    /\ op' = IF op = "none" THEN "chordal_graph_cliques" ELSE op
    /\ IF Len(triplet) # 0
       THEN /\ Raise("NetworkXNonChordal", 205)
            /\ UNCHANGED <<todo, cliques>>
       ELSE /\ cliques' = {}
            /\ todo' = connected_components(G)
            /\ pc' = "cliques_for"
            /\ UNCHANGED <<result, exc, exc_line>>
    /\ UNCHANGED <<G, site, H, s, t, treewidth_bound, unnumbered, numbered,
                   current_treewidth, triplet, I, passes, comp_cliques,
                   clique_wanna_be>>

\* The for loop of line 208 takes the next component C: lines 330-339 of
\* _connected_chordal_graph_cliques(C), with line 209 when C is one node.
CliquesComponent ==
    /\ pc = "cliques_for"
    /\ \E C \in todo :
         /\ todo' = todo \ {C}
         /\ IF Cardinality(C) = 1
            THEN /\ cliques' = cliques \cup {C}
                 /\ UNCHANGED <<pc, unnumbered, numbered, comp_cliques,
                                clique_wanna_be>>
            ELSE /\ \E v \in C :
                      /\ unnumbered' = C \ {v}
                      /\ numbered' = {v}
                      /\ clique_wanna_be' = {v}
                 /\ comp_cliques' = {}
                 /\ pc' = "cliques_loop"
                 /\ UNCHANGED cliques
    /\ UNCHANGED <<G, op, site, H, s, t, treewidth_bound, current_treewidth, triplet,
                   I, passes, result, exc, exc_line>>

\* A candidate clique that lacks the node just numbered.
NewCliqueWannaBeWithoutV(X, v, nums) == X[v] \cap nums

\* Lines 344 and 347: the neighbours of v among the numbered nodes, and v.
NewCliqueWannaBe(X, v, nums) == (X[v] \cap nums) \cup {v}

\* One iteration of the while loop, lines 340-352.
CliquesStep ==
    /\ pc = "cliques_loop"
    /\ unnumbered # {}
    /\ \E v \in MaxCardinalityNode(G, unnumbered, numbered) :
         LET new_clique_wanna_be == NewCliqueWannaBe(G, v, numbered \cup {v})
         IN  /\ unnumbered' = unnumbered \ {v}
             /\ numbered' = numbered \cup {v}
             /\ IF number_of_selfloops(G, clique_wanna_be) > 0
                THEN /\ Raise("NetworkXError", 261)
                     /\ UNCHANGED <<comp_cliques, clique_wanna_be>>
                ELSE IF IsCompleteGraph(G, clique_wanna_be)
                THEN /\ comp_cliques' =
                          IF ~ (clique_wanna_be \subseteq new_clique_wanna_be)
                          THEN comp_cliques \cup {clique_wanna_be}
                          ELSE comp_cliques
                     /\ clique_wanna_be' = new_clique_wanna_be
                     /\ UNCHANGED <<pc, result, exc, exc_line>>
                ELSE /\ Raise("NetworkXNonChordal", 352)
                     /\ UNCHANGED <<comp_cliques, clique_wanna_be>>
    /\ UNCHANGED <<G, op, site, H, s, t, treewidth_bound, current_treewidth, triplet,
                   I, passes, todo, cliques>>

\* The while loop ends: lines 353-354 and the union of line 209.
CliquesComponentDone ==
    /\ pc = "cliques_loop"
    /\ unnumbered = {}
    /\ cliques' = cliques \cup comp_cliques \cup {clique_wanna_be}
    /\ comp_cliques' = comp_cliques \cup {clique_wanna_be}
    /\ pc' = "cliques_for"
    /\ UNCHANGED <<G, op, site, H, s, t, treewidth_bound, unnumbered, numbered,
                   current_treewidth, triplet, I, passes, todo, clique_wanna_be,
                   result, exc, exc_line>>

\* Lines 253-256 on the set chordal_graph_cliques returned.
RECURSIVE MaxClique(_, _)
MaxClique(max_clique, S) ==
    IF S = {} THEN max_clique
    ELSE LET clique == CHOOSE c \in S : TRUE
         IN  MaxClique(IF Cardinality(clique) > max_clique
                       THEN Cardinality(clique) ELSE max_clique,
                       S \ {clique})

Treewidth(S) == MaxClique(-1, S) - 1

\* The for loop of line 208 ends: line 211, and for chordal_graph_treewidth
\* lines 253-256.
CliquesReturn ==
    /\ pc = "cliques_for"
    /\ todo = {}
    /\ IF op = "chordal_graph_treewidth"
       THEN Return(Treewidth(cliques))
       ELSE Return(cliques)
    /\ UNCHANGED <<G, op, site, H, s, t, treewidth_bound, unnumbered, numbered,
                   current_treewidth, triplet, I, passes, todo, cliques,
                   comp_cliques,
                   clique_wanna_be>>

------------------------------------------------------------------------------
\* Specifications.

InitCall(X) ==
    /\ G = X /\ H = X
    /\ op = "none" /\ pc = "idle" /\ site = "none"
    /\ s = None /\ t = None /\ treewidth_bound = maxint
    /\ unnumbered = {} /\ numbered = {}
    /\ current_treewidth = None /\ triplet = <<>>
    /\ I = {} /\ passes = 0
    /\ todo = {} /\ cliques = {} /\ comp_cliques = {} /\ clique_wanna_be = {}
    /\ result = None /\ exc = "" /\ exc_line = 0

\* Every simple undirected graph on 0 to MaxNodes nodes.
Init == \E n \in 0..MaxNodes : \E X \in Graphs(n) : InitCall(X)

\* is_chordal, chordal_graph_cliques and chordal_graph_treewidth.
Next ==
    \/ IsChordalCall
    \/ BreakerStep
    \/ BreakerExit
    \/ IsChordalReturn
    \/ TreewidthBegin
    \/ CliquesBegin
    \/ CliquesComponent
    \/ CliquesStep
    \/ CliquesComponentDone
    \/ CliquesReturn

Spec == Init /\ [][Next]_vars

\* induced_nodes.
NextInduced ==
    \/ IsChordalCall
    \/ BreakerStep
    \/ BreakerExit
    \/ InducedNodesBegin
    \/ InducedNodesLoop

SpecInduced == Init /\ [][NextInduced]_vars

\* The doctest of induced_nodes.
InitPath == InitCall(path_graph(PathLen))

NextPath ==
    \/ IsChordalCall
    \/ BreakerStep
    \/ BreakerExit
    \/ InducedNodesDoctest
    \/ InducedNodesLoop

SpecPath == InitPath /\ [][NextPath]_vars

------------------------------------------------------------------------------
\* Ground truth, by brute force.

IsClique(X, S) == \A a \in S : \A b \in S \ {a} : b \in X[a]

\* S is the node set of a cycle of four or more nodes that has no chord:
\* the subgraph over S is connected and each of its nodes has degree two.
ChordlessCycle(X, S) ==
    /\ Cardinality(S) >= 4
    /\ \A a \in S : Cardinality(X[a] \cap S) = 2
    /\ \E a \in S : Reach([x \in S |-> X[x] \cap S], {a}) = S

Chordal(X) == \A S \in SUBSET Nodes(X) : ~ ChordlessCycle(X, S)

MaximalCliques(X) ==
    {S \in SUBSET Nodes(X) :
        /\ S # {}
        /\ IsClique(X, S)
        /\ \A x \in Nodes(X) \ S : ~ IsClique(X, S \cup {x})}

\* Largest clique size minus one.
TrueTreewidth(X) ==
    CHOOSE k \in -1..Cardinality(Nodes(X)) :
        /\ \E S \in SUBSET Nodes(X) : IsClique(X, S) /\ Cardinality(S) = k + 1
        /\ \A S \in SUBSET Nodes(X) : IsClique(X, S) => Cardinality(S) <= k + 1

WitnessReturned == pc = "breaker_ret" /\ Len(triplet) = 3

------------------------------------------------------------------------------
\* C1: on a graph with at least one node, whatever the start node and the
\* ties, is_chordal returns True exactly when no cycle of four or more nodes
\* lacks a chord.
C1_IsChordalIffChordal ==
    (pc = "done" /\ op = "is_chordal" /\ Nodes(G) # {}) =>
        (exc = "" /\ result = Chordal(G))

C1_Witness ==
    /\ pc = "done" /\ op = "is_chordal" /\ exc = ""
    /\ result = FALSE
    /\ ChordlessCycle(G, Nodes(G)) /\ Cardinality(Nodes(G)) = 5

\* C2: on a chordal graph with at least one node, chordal_graph_cliques
\* returns exactly the maximal cliques of the graph.
C2_CliquesAreMaximalCliques ==
    (pc = "done" /\ op = "chordal_graph_cliques" /\ Nodes(G) # {} /\ Chordal(G)) =>
        (exc = "" /\ result = MaximalCliques(G))

C2_Witness ==
    /\ pc = "done" /\ op = "chordal_graph_cliques" /\ exc = ""
    /\ Cardinality(result) >= 3
    /\ \E c \in result : Cardinality(c) = 1
    /\ \E c \in result : Cardinality(c) = 3

\* C3: when induced_nodes returns (I, H), H is G plus the edge (s, t) plus an
\* edge from s to every node of I other than s, and nothing else.
C3_HIsGPlusEdgesFromS ==
    (pc = "done" /\ op = "induced_nodes" /\ exc = "") =>
        H = [x \in Nodes(G) |->
               IF x = s THEN G[x] \cup {t} \cup (I \ {s})
               ELSE IF x = t \/ x \in I THEN G[x] \cup {s}
               ELSE G[x]]

C3_Witness ==
    /\ pc = "done" /\ op = "induced_nodes" /\ exc = ""
    /\ passes >= 2

\* C4 (general part): on a path graph induced_nodes returns as I exactly the
\* nodes of the path between s and t, both ends included.
IsPathGraph(X) ==
    /\ Cardinality(Nodes(X)) >= 2
    /\ \A x \in Nodes(X) : Cardinality(X[x]) <= 2
    /\ Cardinality({x \in Nodes(X) : Cardinality(X[x]) = 1}) = 2
    /\ \E x \in Nodes(X) : Reach(X, {x}) = Nodes(X)

\* The nodes between a and b on the path graph X: those whose removal
\* separates a from b, and the two ends.
Between(X, a, b) ==
    {a, b} \cup {x \in Nodes(X) \ {a, b} :
                   b \notin Reach([y \in Nodes(X) \ {x} |-> X[y] \ {x}], {a})}

C4_PathNodesReturned ==
    (pc = "done" /\ op = "induced_nodes" /\ exc = "" /\ IsPathGraph(G)) =>
        I = Between(G, s, t)

\* C4 (the doctest): on the path graph on nodes 0..9 with s = 1, t = 9 and
\* bound 2, induced_nodes returns I = {1, ..., 9} and does not raise.
C4_DoctestPath ==
    (pc = "done" /\ op = "induced_nodes") =>
        (exc = "" /\ I = PathS..PathT)

\* C5: when the treewidth of G is above the bound, induced_nodes never
\* returns: no pass of the detector on H ends without a witness, and the call
\* can only end with NetworkXTreewidthBoundExceeded.
C5_BoundExceededRaised ==
    (op = "induced_nodes" /\ site = "induced_nodes" /\ treewidth_bound # maxint
        /\ TrueTreewidth(G) > treewidth_bound) =>
        /\ (pc = "breaker_ret" => Len(triplet) = 3)
        /\ (pc = "done" => exc = "NetworkXTreewidthBoundExceeded")

C5_Witness ==
    /\ pc = "done" /\ op = "induced_nodes" /\ site = "induced_nodes"
    /\ exc = "NetworkXTreewidthBoundExceeded"
    /\ TrueTreewidth(G) > treewidth_bound
    /\ passes >= 1

\* C6: chordal_graph_treewidth of a chordal graph, the graph with no nodes
\* included, returns an integer that is at least -1.
C6_TreewidthReturns ==
    (pc = "done" /\ op = "chordal_graph_treewidth" /\ Chordal(G)) =>
        (exc = "" /\ result >= -1)

\* C7: chordal_graph_cliques raises NetworkXNonChordal exactly when G is not
\* chordal, always from the test of line 204 and never from the traversal.
C7_NonChordalIffNotChordal ==
    (pc = "done" /\ op = "chordal_graph_cliques") =>
        /\ (exc = "NetworkXNonChordal") <=> ~ Chordal(G)
        /\ exc = "NetworkXNonChordal" =>
              (exc_line = 205 /\ todo = {} /\ cliques = {} /\ clique_wanna_be = {})
        /\ exc_line # 352

C7_Witness ==
    /\ pc = "done" /\ op = "chordal_graph_cliques"
    /\ exc = "NetworkXNonChordal"
    /\ G = GraphOf(1..4, {{1, 2}, {2, 3}, {3, 4}, {4, 1}})

\* C8: every pass of the detector on H that returns a witness is followed by
\* a new edge at s, so there are at most as many such passes as nodes not
\* adjacent to s, and induced_nodes returns with H chordal.
NotAdjacentToS(X) == Nodes(X) \ (X[s] \cup {s})

C8_RepairLoopProgress ==
    (op = "induced_nodes" /\ site = "induced_nodes") =>
        /\ WitnessReturned =>
              \E n \in {triplet[1], triplet[2], triplet[3]} : n \in NotAdjacentToS(H)
        /\ passes + Cardinality(NotAdjacentToS(H))
              <= Cardinality(NotAdjacentToS(add_edge(G, s, t)))
        /\ (pc = "done" /\ exc = "") => Chordal(H)

C8_Witness ==
    /\ op = "induced_nodes" /\ pc = "done" /\ exc = ""
    /\ treewidth_bound = maxint
    /\ passes >= 2

\* C9: a witness (u, v, w) has v other than the start node, u and w distinct
\* neighbours of v numbered before v and not adjacent; and the detector goes
\* past a node only when its numbered neighbours form a clique, so the
\* witness comes at the first node whose numbered neighbours do not.
C9_WitnessAtFirstNonClique ==
    [][\A v \in Nodes(H) :
          (pc = "breaker_loop" /\ v \in unnumbered /\ v \notin unnumbered') =>
              IF pc' = "breaker_ret"
              THEN /\ Len(triplet') = 3
                   /\ triplet'[2] = v
                   /\ numbered # {} /\ v \notin numbered
                   /\ site = "induced_nodes" => (s \in numbered /\ v # s)
                   /\ triplet'[1] # triplet'[3]
                   /\ {triplet'[1], triplet'[3]} \subseteq H[v] \cap numbered
                   /\ triplet'[3] \notin H[triplet'[1]]
              ELSE IsClique(H, H[v] \cap numbered)]_vars

C9_Witness ==
    /\ WitnessReturned
    /\ Cardinality(numbered) = 5
    /\ Cardinality(H[triplet[2]] \cap numbered) = 3

\* C10 as stated: a witness (u, v, w) comes with a fourth node x adjacent to
\* u and w and not to v, closing a chordless cycle of exactly four nodes.
C10_WitnessOnFourCycle ==
    WitnessReturned =>
        LET u == triplet[1]
            v == triplet[2]
            w == triplet[3]
        IN  \E x \in Nodes(H) \ {u, v, w} :
              /\ x \in H[u] /\ x \in H[w] /\ x \notin H[v]
              /\ w \notin H[u]

\* C10 amended: a witness (u, v, w) lies on a cycle of four or more nodes
\* that has no chord.
C10_WitnessOnChordlessCycle ==
    WitnessReturned =>
        \E S \in SUBSET Nodes(H) :
            /\ {triplet[1], triplet[2], triplet[3]} \subseteq S
            /\ ChordlessCycle(H, S)

C10_Witness ==
    /\ WitnessReturned
    /\ ChordlessCycle(H, Nodes(H)) /\ Cardinality(Nodes(H)) = 5

====
